---- MODULE Spec2Model ----
(***************************************************************************)
(* LagouPromise (src/src/LagouPromise.js) as a state machine.              *)
(*                                                                         *)
(* JavaScript runs one task at a time.  A task is started by user code at  *)
(* top level (new, then, done, a call of a captured entry point) or by the *)
(* timer queue (the closure done() handed to setTimeout).  Inside a task   *)
(* the methods call each other and user callbacks; the call stack of the   *)
(* running task is the variable `stack`, an exception in flight is `exc`.  *)
(* While the stack is not empty only the running task can move.            *)
(***************************************************************************)
EXTENDS Integers, Sequences, FiniteSets, TLC

\* ------------------------------------------------------------------ bounds
MaxFutures == 2      \* futures user code creates (new LagouPromise / then)
MaxRegs == 2         \* calls of done / then made by user code
MaxEntryCalls == 1   \* calls of captured entry points made in later tasks

\* ------------------------------------------------------------------ values
\* A JavaScript value is a record [k, n].
Plain(n) == [k |-> "plain", n |-> n]
PromiseVal(f) == [k |-> "promise", n |-> f]     \* the LagouPromise instance f
BadThen == [k |-> "badThen", n |-> 0]          \* an object whose `then` getter throws
GetterError == [k |-> "getterError", n |-> 0]  \* what that getter throws
Undefined == [k |-> "undefined", n |-> 0]
Null == [k |-> "null", n |-> 0]
TypeError == [k |-> "TypeError", n |-> 0]       \* reading forEach / push of null
ProducerError == [k |-> "producerError", n |-> 0] \* what a producer throws
\* what the user callback of registration r returns / throws on side s
Returned(r, s) == [k |-> IF s = "F" THEN "retF" ELSE "retR", n |-> r]
Thrown(r, s) == [k |-> IF s = "F" THEN "exF" ELSE "exR", n |-> r]

PENDING == "pending"
FULFILLED == "fulfilled"
REJECTED == "rejected"

\* ------------------------------------------------------------------ callbacks
\* What user code passes as onFulfilled / onRejected: nothing callable, a
\* function that returns, a function that throws.  resolveFn / rejectFn are
\* the two closures doResolve hands to a resolver (guard n).
None == [k |-> "none", n |-> 0]
Ret == [k |-> "ret", n |-> 0]
Throw == [k |-> "throw", n |-> 0]
ResolveFn(g) == [k |-> "resolveFn", n |-> g]
RejectFn(g) == [k |-> "rejectFn", n |-> g]
UserCallbacks == {None, Ret, Throw}
\* typeof cb === 'function'
IsFunction(cb) == cb.k # "none"

\* The object handed to handle(): registration number id; g = 0 for done(),
\* and for then() the guard of the future then() returned.
Handler(id, g, onF, onR) == [id |-> id, g |-> g, onFulfilled |-> onF, onRejected |-> onR]
NoHandler == Handler(0, 0, None, None)

VARIABLES
    state,       \* state[f]: this.state of future f
    value,       \* value[f]: this.value
    handlers,    \* handlers[f]: this.handlers, [null |-> BOOLEAN, list |-> Seq(handler)]
    guards,      \* guards[g]: one call of doResolve: its `done` flag, the future
                 \* whose fulfill/reject it guards, who made the call, and three
                 \* logs: how often its closures were called (a caught throw
                 \* of its resolver counts), the first of these calls, the
                 \* fulfill/reject calls it made, and whether its catch block
                 \* has been entered
    timers,      \* the setTimeout(.., 0) queue: handle(h) calls waiting for their turn
    stack,       \* call stack of the running task, top last
    exc,         \* exception in flight
    producer,    \* what is left of the user resolver doResolve is running
    nreg,        \* done/then calls so far (registration numbers)
    stored,      \* log: the registrations handle() has pushed on a handlers list
    nentry,      \* entry-point calls made from later tasks
    calls,       \* log: calls[f], the callbacks of reactions on f invoked, in order
    escaped      \* log: has an exception left a task uncaught?

vars == <<state, value, handlers, guards, timers, stack, exc, producer, nreg,
          stored, nentry, calls, escaped>>

Futures == 1..Len(state)
Guards == 1..Len(guards)

NoExc == [thrown |-> FALSE, v |-> Undefined]
Exc(v) == [thrown |-> TRUE, v |-> v]

NoProducer == [call |-> "none", arg |-> Undefined, throws |-> FALSE]

Frame(op, self, h, arg, pc, i) ==
    [op |-> op, self |-> self, h |-> h, arg |-> arg, pc |-> pc, i |-> i]
Top == stack[Len(stack)]
Pop(s) == SubSeq(s, 1, Len(s) - 1)
SetTop(s, fr) == [s EXCEPT ![Len(s)] = fr]

Idle == stack = <<>> /\ ~exc.thrown

Init ==
    /\ state = <<>>
    /\ value = <<>>
    /\ handlers = <<>>
    /\ guards = <<>>
    /\ timers = <<>>
    /\ stack = <<>>
    /\ exc = NoExc
    /\ producer = NoProducer
    /\ nreg = 0
    /\ stored = {}
    /\ nentry = 0
    /\ calls = <<>>
    /\ escaped = FALSE

\* ------------------------------------------------------------------ helpers
\* A constructor that leaves this.handlers unset.
NoHandlers == [null |-> TRUE, list |-> <<>>]

\* this.handlers = [], line 28
InitialHandlers == [null |-> FALSE, list |-> <<>>]

\* A done() that calls this.handle(h) itself instead of handing it to setTimeout.
RunNow(f, h) ==
    [timers |-> timers, push |-> <<Frame("handle", f, h, Undefined, "start", 0)>>]

\* done(): setTimeout(() => this.handle(h), 0) puts the call at the end of the
\* timer queue and pushes nothing on the running stack.
SetTimeout(f, h) ==
    [timers |-> Append(timers, [self |-> f, h |-> h]), push |-> <<>>]

\* A doResolve without the `if (done) return` lines.
NeverDone(g) == FALSE

\* doResolve, `if (done) return` in both closures and in the catch.
AlreadyDone(g) == guards[g].done

\* A fresh call of doResolve for future f
Guard(f, by) ==
    [done |-> FALSE, self |-> f, by |-> by, ncalls |-> 0, first |-> <<>>, invoked |-> <<>>,
     threw |-> FALSE]

\* doResolve's closures (result) => {..} and (reason) => {..}, called with v:
\* the new guards and the frame of the completion action the call invokes
\* (none when the flag was set).
CallEntry(g, which, v) ==
    LET c == [which |-> which, arg |-> v]
        first == IF guards[g].first = <<>> THEN <<c>> ELSE guards[g].first
    IN  [guards |-> IF AlreadyDone(g)
                    THEN [guards EXCEPT ![g].ncalls = @ + 1, ![g].first = first]
                    ELSE [guards EXCEPT ![g].done = TRUE,
                                        ![g].ncalls = @ + 1,
                                        ![g].first = first,
                                        ![g].invoked = Append(@, c)],
         push |-> IF AlreadyDone(g) THEN <<>>
                  ELSE <<Frame(IF which = "F" THEN "fulfill" ELSE "reject",
                               guards[g].self, NoHandler, v, "start", 0)>>]

\* f.then(onF, onR): the constructor of the new future (PENDING, null, []),
\* its doResolve (a fresh guard, added to gs) and its resolver, which calls
\* f.done with the two closures of then(); neither can throw.
ThenCall(f, onF, onR, gs) ==
    LET c == Len(state) + 1
        gc == Len(gs) + 1
        h == Handler(nreg + 1, gc, onF, onR)
        d == SetTimeout(f, h)
    IN  [state |-> Append(state, PENDING),
         value |-> Append(value, Null),
         handlers |-> Append(handlers, InitialHandlers),
         guards |-> Append(gs, Guard(c, "then")),
         calls |-> Append(calls, <<>>),
         timers |-> d.timers,
         push |-> d.push,
         nreg |-> nreg + 1]

\* ------------------------------------------------------------------ user code
\* What producers pass: a plain value, the first future (a thenable), an object
\* whose `then` cannot be read; and one plain reason.
FulfillArgs == {Plain(1), BadThen} \cup {PromiseVal(f) : f \in Futures \cap {1}}
RejectArgs == {Plain(2)}
\* A user resolver: at most one synchronous entry-point call, then it returns
\* or throws.  (It keeps the entry points; see FulfillEntry / RejectEntry.)
Producers ==
    {[call |-> "none", arg |-> Undefined, throws |-> t] : t \in BOOLEAN}
    \cup {[call |-> "F", arg |-> v, throws |-> FALSE] : v \in FulfillArgs}
    \cup {[call |-> "F", arg |-> Plain(1), throws |-> TRUE]}
    \cup {[call |-> "R", arg |-> v, throws |-> t] : v \in RejectArgs, t \in BOOLEAN}

\* new LagouPromise(p): lines 25-36, up to the call of doResolve
New(p) ==
    /\ Idle
    /\ Len(state) < MaxFutures
    /\ state' = Append(state, PENDING)
    /\ value' = Append(value, Null)
    /\ handlers' = Append(handlers, InitialHandlers)
    /\ guards' = Append(guards, Guard(Len(state) + 1, "user"))
    /\ calls' = Append(calls, <<>>)
    /\ producer' = p
    /\ stack' = <<Frame("doResolve", Len(guards) + 1, NoHandler, Undefined, "try", 0)>>
    /\ UNCHANGED <<timers, exc, nreg, nentry, escaped, stored>>

\* f.then(onF, onR) called by user code
Then(f, onF, onR) ==
    /\ Idle
    /\ nreg < MaxRegs
    /\ Len(state) < MaxFutures
    /\ LET t == ThenCall(f, onF, onR, guards)
       IN  /\ state' = t.state
           /\ value' = t.value
           /\ handlers' = t.handlers
           /\ guards' = t.guards
           /\ timers' = t.timers
           /\ stack' = stack \o t.push
           /\ nreg' = t.nreg
           /\ calls' = t.calls
    /\ UNCHANGED <<exc, producer, nentry, escaped, stored>>

\* f.done(onF, onR) called by user code
Done(f, onF, onR) ==
    /\ Idle
    /\ nreg < MaxRegs
    /\ LET h == Handler(nreg + 1, 0, onF, onR)
           d == SetTimeout(f, h)
       IN  /\ timers' = d.timers
           /\ stack' = stack \o d.push
           /\ nreg' = nreg + 1
    /\ UNCHANGED <<state, value, handlers, guards, exc, producer, nentry, calls, escaped, stored>>

\* A later task calls an entry point its resolver kept: the closure of guard g.
EntryPoint(g, which, v) ==
    /\ Idle
    /\ nentry < MaxEntryCalls
    /\ guards[g].by = "user"
    /\ LET e == CallEntry(g, which, v)
       IN  /\ guards' = e.guards
           /\ stack' = e.push
    /\ nentry' = nentry + 1
    /\ UNCHANGED <<state, value, handlers, timers, exc, producer, nreg, calls, escaped, stored>>

\* The timer queue runs its oldest closure: () => this.handle(h)
Turn ==
    /\ Idle
    /\ timers # <<>>
    /\ stack' = <<Frame("handle", Head(timers).self, Head(timers).h, Undefined, "start", 0)>>
    /\ timers' = Tail(timers)
    /\ UNCHANGED <<state, value, handlers, guards, exc, producer, nreg, nentry,
                   calls, escaped, stored>>

\* ------------------------------------------------------------------ the running task
Running == stack # <<>> /\ ~exc.thrown

\* line 48, `typeof thenAttr`: no variable thenAttr is declared anywhere (the
\* property read on line 47 is stored in resultThen), and typeof of an
\* undeclared identifier is 'undefined'.
TypeofThenAttr(result) == "undefined"

\* lines 44-51: is `then` non-null after the test?  (result && object/function,
\* and the typeof test of line 48.)
ThenIsSet(result) == result.k = "promise" /\ TypeofThenAttr(result) = "function"

\* fulfill(result), lines 40-60, up to the start of forEach
Fulfill ==
    /\ Running
    /\ Top.op = "fulfill" /\ Top.pc = "start"
    /\ LET f == Top.self
           result == Top.arg
       IN  IF result.k = "badThen"
           THEN \* line 47: reading result.then throws
                /\ exc' = Exc(GetterError)
                /\ UNCHANGED <<state, value, handlers, guards, timers, stack, nreg, calls>>
           ELSE IF ThenIsSet(result)
           THEN \* line 54: doResolve(then.bind(result), this.fulfill, this.reject):
                \* a new guard for f, and result.then(its two closures)
                LET g2 == Len(guards) + 1
                    gs == Append(guards, Guard(f, "adopt"))
                    t == ThenCall(result.n, ResolveFn(g2), RejectFn(g2), gs)
                IN  /\ state' = t.state
                    /\ value' = t.value
                    /\ handlers' = t.handlers
                    /\ guards' = t.guards
                    /\ timers' = t.timers
                    /\ nreg' = t.nreg
                    /\ calls' = t.calls
                    /\ stack' = Pop(stack) \o t.push
                    /\ exc' = exc
           ELSE \* lines 56-60
                /\ state' = [state EXCEPT ![f] = FULFILLED]
                /\ value' = [value EXCEPT ![f] = result]
                /\ IF handlers[f].null
                   THEN exc' = Exc(TypeError) /\ stack' = stack
                   ELSE /\ stack' = SetTop(stack, [Top EXCEPT !.pc = "forEach", !.i = 1])
                        /\ exc' = exc
                /\ UNCHANGED <<handlers, guards, timers, nreg, calls>>
    /\ UNCHANGED <<producer, nentry, escaped, stored>>

\* reject(error), lines 75-77, up to the start of forEach
Reject ==
    /\ Running
    /\ Top.op = "reject" /\ Top.pc = "start"
    /\ LET f == Top.self
       IN  /\ state' = [state EXCEPT ![f] = REJECTED]
           /\ value' = [value EXCEPT ![f] = Top.arg]
           /\ IF handlers[f].null
              THEN exc' = Exc(TypeError) /\ stack' = stack
              ELSE /\ stack' = SetTop(stack, [Top EXCEPT !.pc = "forEach", !.i = 1])
                   /\ exc' = exc
    /\ UNCHANGED <<handlers, guards, timers, producer, nreg, nentry, calls, escaped, stored>>

\* this.handlers.forEach(this.handle); this.handlers = null (lines 60-65, 77-78):
\* one handle call per step, then the assignment and the return
ForEach ==
    /\ Running
    /\ Top.op \in {"fulfill", "reject"} /\ Top.pc = "forEach"
    /\ LET f == Top.self
       IN  IF Top.i <= Len(handlers[f].list)
           THEN /\ stack' = Append(SetTop(stack, [Top EXCEPT !.i = Top.i + 1]),
                                   Frame("handle", f, handlers[f].list[Top.i], Undefined, "start", 0))
                /\ handlers' = handlers
           ELSE /\ handlers' = [handlers EXCEPT ![f] = [null |-> TRUE, list |-> <<>>]]
                /\ stack' = Pop(stack)
    /\ UNCHANGED <<state, value, guards, timers, exc, producer, nreg, nentry, calls, escaped, stored>>

\* typeof handler.onFulfilled === 'function': then() always passes closures
HasCallback(h, s) ==
    h.g # 0 \/ IsFunction(IF s = "F" THEN h.onFulfilled ELSE h.onRejected)

\* A handle() that puts the handler in front (unshift) instead of at the end.
Unshift(list, h) == <<h>> \o list

\* this.handlers.push(handler), line 86
Push(list, h) == Append(list, h)

\* A handle() that stores the handler whatever the state is.
AlwaysPending(f) == TRUE

\* if (this.state === PENDING), line 85
IsPending(f) == state[f] = PENDING

\* handle(handler), lines 85-94.  The second test (line 91) is made after the
\* first callback has returned.
Handle ==
    /\ Running
    /\ Top.op = "handle"
    /\ LET f == Top.self
           h == Top.h
           second == IF state[f] = REJECTED /\ HasCallback(h, "R")
                     THEN SetTop(stack, Frame("onRejected", f, h, value[f], "start", 0))
                     ELSE Pop(stack)
       IN  IF Top.pc = "start" /\ IsPending(f)
           THEN IF handlers[f].null
                THEN exc' = Exc(TypeError) /\ UNCHANGED <<stack, handlers, stored>>
                ELSE /\ handlers' = [handlers EXCEPT ![f].list = Push(@, h)]
                     /\ stored' = stored \cup {h.id}
                     /\ stack' = Pop(stack)
                     /\ exc' = exc
           ELSE /\ IF Top.pc = "start" /\ state[f] = FULFILLED /\ HasCallback(h, "F")
                   THEN stack' = Append(SetTop(stack, [Top EXCEPT !.pc = "second"]),
                                        Frame("onFulfilled", f, h, value[f], "start", 0))
                   ELSE stack' = second
                /\ UNCHANGED <<handlers, exc, stored>>
    /\ UNCHANGED <<state, value, guards, timers, producer, nreg, nentry, calls, escaped>>

Side(fr) == IF fr.op = "onFulfilled" THEN "F" ELSE "R"
UserCb(fr) == IF fr.op = "onFulfilled" THEN fr.h.onFulfilled ELSE fr.h.onRejected
Invocation(fr) == [h |-> fr.h, side |-> Side(fr), arg |-> fr.arg]

\* A callback passed to done() by user code runs: it returns or throws.
DoneCallback ==
    /\ Running
    /\ Top.op \in {"onFulfilled", "onRejected"} /\ Top.h.g = 0
    /\ calls' = [calls EXCEPT ![Top.self] = Append(@, Invocation(Top))]
    /\ stack' = Pop(stack)
    /\ exc' = IF UserCb(Top).k = "throw" THEN Exc(Thrown(Top.h.id, Side(Top))) ELSE exc
    /\ UNCHANGED <<state, value, handlers, guards, timers, producer, nreg, nentry, escaped, stored>>

\* A closure that calls resolve / reject before it has run the callback.
SettlesAtOnce(cb) == "start"

\* lines 118 and 128, resolve(onFulfilled(result)): the argument is evaluated
\* first, so the closure calls resolve / reject once the user callback has
\* run; without a callback (lines 123, 133) it does so at once.
SettlesAt(cb) == IF cb.k \in {"ret", "throw"} THEN "running" ELSE "start"

\* The closures then() passes to done(), lines 113-135, for side s of handler h:
\*   cb not callable:  resolve(result) / reject(error), outside any try
\*   cb returns w:     the callback runs, then resolve(w), inside the try
\*   cb throws x:      the callback runs, then catch (ex) { reject(ex) }
\*   cb is a closure of doResolve (line 54): call it; then resolve(undefined)
ThenCallback ==
    /\ Running
    /\ Top.op \in {"onFulfilled", "onRejected"} /\ Top.h.g # 0
    /\ LET h == Top.h
           s == Side(Top)
           cb == UserCb(Top)
           e == CASE Top.pc = "called" -> CallEntry(h.g, "F", Undefined)
                  [] Top.pc = "start" /\ cb.k = "resolveFn" -> CallEntry(cb.n, "F", Top.arg)
                  [] Top.pc = "start" /\ cb.k = "rejectFn" -> CallEntry(cb.n, "R", Top.arg)
                  [] Top.pc = SettlesAt(cb) /\ cb.k = "none" -> CallEntry(h.g, s, Top.arg)
                  [] Top.pc = SettlesAt(cb) /\ cb.k = "ret" -> CallEntry(h.g, "F", Returned(h.id, s))
                  [] Top.pc = SettlesAt(cb) /\ cb.k = "throw" -> CallEntry(h.g, "R", Thrown(h.id, s))
                  [] OTHER -> [guards |-> guards, push |-> <<>>]
           next == CASE Top.pc = "called" -> "try"
                     [] Top.pc = "start" /\ cb.k \in {"resolveFn", "rejectFn"} -> "called"
                     [] Top.pc = "start" /\ cb.k \in {"ret", "throw"} -> "running"
                     [] Top.pc = "running" /\ cb.k = "ret" -> "try"
                     [] OTHER -> "outside"
       IN  /\ stack' = IF Top.pc \in {"try", "outside"}
                       THEN Pop(stack)
                       ELSE SetTop(stack, [Top EXCEPT !.pc = next]) \o e.push
           /\ guards' = e.guards
           /\ calls' = IF Top.pc = "start"
                       THEN [calls EXCEPT ![Top.self] = Append(@, Invocation(Top))]
                       ELSE calls
    /\ UNCHANGED <<state, value, handlers, timers, exc, producer, nreg, nentry, escaped, stored>>

\* doResolve running a user resolver, lines 143-152: the resolver's synchronous
\* entry-point call, then its throw, then the return
DoResolve ==
    /\ Running
    /\ Top.op = "doResolve" /\ Top.pc = "try"
    /\ IF producer.call # "none"
       THEN LET e == CallEntry(Top.self, producer.call, producer.arg)
            IN  /\ guards' = e.guards
                /\ stack' = stack \o e.push
                /\ producer' = [producer EXCEPT !.call = "none", !.arg = Undefined]
                /\ exc' = exc
       ELSE /\ IF producer.throws
               THEN exc' = Exc(ProducerError) /\ stack' = stack
               ELSE exc' = exc /\ stack' = Pop(stack)
            /\ producer' = [producer EXCEPT !.throws = FALSE]
            /\ guards' = guards
    /\ UNCHANGED <<state, value, handlers, timers, nreg, nentry, calls, escaped, stored>>

\* A call made from a catch block has returned: this.reject(e) of line 69, or
\* onRejected(ex) of line 156; the method returns.
Return ==
    /\ Running
    /\ Top.op \in {"fulfill", "doResolve"} /\ Top.pc = "catch"
    /\ stack' = Pop(stack)
    /\ UNCHANGED <<state, value, handlers, guards, timers, exc, producer, nreg, nentry,
                   calls, escaped, stored>>

\* A fulfill without its try block.
NoTry(fr) == FALSE

\* fulfill, lines 40-67: the try block holds the whole method, the read of
\* result.then (line 47) and the forEach over the handlers (line 60) alike
CaughtByFulfill(fr) == fr.op = "fulfill" /\ fr.pc \in {"start", "forEach"}

\* A doResolve that calls the resolver outside any try block.
NotCaught(fr) == FALSE

\* doResolve, lines 143-153: the resolver is called inside try { } catch (ex)
CaughtByDoResolve(fr) == fr.op = "doResolve" /\ fr.pc = "try"

\* An exception reaches the frame on top of the stack.
\*   fulfill, inside its try (lines 40-66): catch (e) { this.reject(e) }
\*   a closure of then(), inside its try:    catch (ex) { reject(ex) }
\*   doResolve, inside its try:              catch (ex) { if (done) return; .. }
\*   anything else: the frame is left, the exception goes on
Unwind ==
    /\ stack # <<>> /\ exc.thrown
    /\ LET inTry == \/ CaughtByFulfill(Top)
                    \/ Top.op \in {"onFulfilled", "onRejected"} /\ Top.pc \in {"try", "called"}
                    \/ CaughtByDoResolve(Top)
           e == IF Top.op = "doResolve" THEN CallEntry(Top.self, "R", exc.v)
                ELSE CallEntry(Top.h.g, "R", exc.v)
       IN  IF ~inTry
           THEN /\ stack' = Pop(stack)
                /\ UNCHANGED <<exc, guards>>
           ELSE IF Top.op = "fulfill"
           THEN /\ stack' = Append(SetTop(stack, [Top EXCEPT !.pc = "catch"]),
                                   Frame("reject", Top.self, NoHandler, exc.v, "start", 0))
                /\ exc' = NoExc
                /\ guards' = guards
           ELSE /\ stack' = SetTop(stack, [Top EXCEPT !.pc = IF Top.op = "doResolve"
                                                             THEN "catch" ELSE "outside"])
                              \o e.push
                /\ exc' = NoExc
                /\ guards' = IF Top.op = "doResolve"
                              THEN [e.guards EXCEPT ![Top.self].threw = TRUE]
                              ELSE e.guards
    /\ UNCHANGED <<state, value, handlers, timers, producer, nreg, nentry, calls,
                   escaped, stored>>

\* The exception leaves the task: nothing on the stack caught it.
Escape ==
    /\ stack = <<>> /\ exc.thrown
    /\ escaped' = TRUE
    /\ exc' = NoExc
    /\ UNCHANGED <<state, value, handlers, guards, timers, stack, producer, nreg, nentry,
                   calls, stored>>

Step ==
    \/ Fulfill
    \/ Reject
    \/ ForEach
    \/ Handle
    \/ DoneCallback
    \/ ThenCallback
    \/ DoResolve
    \/ Return
    \/ Unwind
    \/ Escape

Next ==
    \/ \E p \in Producers : New(p)
    \/ \E f \in Futures, onF \in UserCallbacks, onR \in UserCallbacks : Then(f, onF, onR)
    \/ \E f \in Futures, onF \in UserCallbacks, onR \in UserCallbacks : Done(f, onF, onR)
    \/ \E g \in Guards, v \in FulfillArgs : EntryPoint(g, "F", v)
    \/ \E g \in Guards, v \in RejectArgs : EntryPoint(g, "R", v)
    \/ Turn
    \/ Step

Spec == Init /\ [][Next]_vars

\* ------------------------------------------------------------------ claims
\* the future then() returned for handler h
Child(h) == guards[h.g].self
\* the callback of h that matches a settled state
Matching(st) == IF st = FULFILLED THEN "F" ELSE "R"
\* how often a callback of registration r on f has been invoked
Count(f, r) == Cardinality({i \in DOMAIN calls[f] : calls[f][i].h.id = r})

\* C1: once a future has left PENDING, neither its state nor its value
\* changes again, whatever is called afterwards and whatever callbacks throw.
C1_SettledNeverChanges ==
    [][\A f \in Futures :
          state[f] # PENDING => state'[f] = state[f] /\ value'[f] = value[f]]_vars

\* C2: of all the calls of the two closures of one doResolve call (a caught
\* throw of the resolver counts as a call), only the first invokes fulfill or
\* reject, with its own argument; the future stays PENDING until then, a
\* rejection it records is that call's reason and a fulfilment value that
\* call's value; every later call changes nothing and starts nothing.
FirstCallOnly(g) ==
    LET f == guards[g].self
        inv == guards[g].invoked
    IN  /\ Len(inv) <= 1
        /\ inv = guards[g].first
        /\ guards[g].done <=> guards[g].ncalls > 0
        /\ guards[g].done <=> inv # <<>>
        /\ inv = <<>> => state[f] = PENDING
        /\ (inv # <<>> /\ inv[1].which = "R" /\ state[f] # PENDING)
               => state[f] = REJECTED /\ value[f] = inv[1].arg
        /\ (inv # <<>> /\ inv[1].which = "F" /\ state[f] = FULFILLED)
               => value[f] = inv[1].arg
LaterCallIsNoOp(g) ==
    (guards[g].done /\ guards'[g].ncalls > guards[g].ncalls)
        => /\ UNCHANGED <<state, value, handlers, timers>>
           /\ guards'[g].invoked = guards[g].invoked
           /\ guards'[g].first = guards[g].first
           /\ Len(stack') <= Len(stack)
C2_SingleSettlement ==
    /\ [](\A g \in Guards : FirstCallOnly(g))
    /\ [][\A g \in Guards : LaterCallIsNoOp(g)]_vars
\* a resolver has called its entry points twice, in a later task too
C2_Witness ==
    \E g \in Guards :
        /\ Idle /\ guards[g].by = "user" /\ guards[g].ncalls >= 2 /\ nentry >= 1
        /\ state[guards[g].self] # PENDING

\* C3: a future its producer fulfilled with the future i ends up with i's
\* outcome: once it is settled, i is settled and both have the same state and
\* value.
C3_Flattening ==
    \A g \in Guards :
        LET o == guards[g].self
            inv == guards[g].invoked
        IN  (inv # <<>> /\ inv[1].which = "F" /\ inv[1].arg.k = "promise"
                /\ state[o] # PENDING)
                => /\ state[inv[1].arg.n] # PENDING
                   /\ state[o] = state[inv[1].arg.n]
                   /\ value[o] = value[inv[1].arg.n]

\* C4: no future is FULFILLED with a thenable as its value.
C4_NeverFulfilledWithThenable ==
    \A f \in Futures : state[f] = FULFILLED => value[f].k # "promise"

\* C5: a call of then or done made by user code returns without having invoked
\* any callback: it ends with nothing running and nothing thrown.
C5_NoSynchronousCallback ==
    [][(Idle /\ nreg' = nreg + 1)
          => /\ \A f \in DOMAIN calls' :
                    calls'[f] = IF f \in DOMAIN calls THEN calls[f] ELSE <<>>
             /\ stack' = <<>>
             /\ ~exc'.thrown]_vars
\* then/done has been called on a settled future with a matching callback,
\* has returned, and the callback has not run
C5_Witness ==
    \E i \in DOMAIN timers :
        LET f == timers[i].self
            h == timers[i].h
        IN  /\ Idle /\ state[f] # PENDING
            /\ IsFunction(IF state[f] = FULFILLED THEN h.onFulfilled ELSE h.onRejected)
            /\ Count(f, h.id) = 0

\* C6: on one future, the callbacks for one outcome run in the order of
\* registration: of two invocations on the same side, the earlier one belongs
\* to the earlier registration (so none runs twice for one outcome).
C6_FifoReactions ==
    \A f \in Futures :
        \A i, j \in DOMAIN calls[f] :
            (i < j /\ calls[f][i].side = calls[f][j].side)
                => calls[f][i].h.id < calls[f][j].h.id
\* two reactions stored while the future was PENDING have both been invoked
C6_Witness ==
    \E f \in Futures :
        \E i, j \in DOMAIN calls[f] :
            /\ i < j /\ calls[f][i].side = calls[f][j].side
            /\ calls[f][i].h.id \in stored /\ calls[f][j].h.id \in stored

\* C7: a reaction stored while the future was PENDING is invoked exactly once:
\* not before the future settles, not twice (so not with both callbacks), and,
\* when it has a callback for the outcome, not zero times once the settling
\* task has ended.
C7_ExactlyOnce ==
    \A f \in Futures :
        /\ state[f] = PENDING => calls[f] = <<>>
        /\ \A i \in DOMAIN calls[f] :
               calls[f][i].h.id \in stored => Count(f, calls[f][i].h.id) = 1
        /\ (Idle /\ state[f] # PENDING /\ ~handlers[f].null)
               => \A k \in DOMAIN handlers[f].list :
                      HasCallback(handlers[f].list[k], Matching(state[f]))
                          => Count(f, handlers[f].list[k].id) >= 1

\* C8: once the closure of a then() without callable arguments has run and
\* its task has ended, the future then() returned has the parent's state and
\* value.
C8_PassThrough ==
    \A f \in Futures :
        \A i \in DOMAIN calls[f] :
            LET h == calls[f][i].h
            IN  (Idle /\ h.g # 0 /\ h.onFulfilled = None /\ h.onRejected = None)
                    => /\ state[Child(h)] = state[f]
                       /\ value[Child(h)] = value[f]

\* C9: when a callback passed to then has thrown X, then, once the task has
\* ended, the future then() returned is REJECTED with X.
C9_ExceptionToRejection ==
    \A f \in Futures :
        \A i \in DOMAIN calls[f] :
            LET c == calls[f][i]
                cb == IF c.side = "F" THEN c.h.onFulfilled ELSE c.h.onRejected
            IN  (Idle /\ c.h.g # 0 /\ cb = Throw)
                    => /\ state[Child(c.h)] = REJECTED
                       /\ value[Child(c.h)] = Thrown(c.h.id, c.side)

\* C10: when the callback passed to then that matches the parent's outcome
\* has returned the plain value W, then, once the task has ended, the future
\* then() returned is FULFILLED with W.
C10_ChainAndRecover ==
    \A f \in Futures :
        \A i \in DOMAIN calls[f] :
            LET c == calls[f][i]
                cb == IF c.side = "F" THEN c.h.onFulfilled ELSE c.h.onRejected
            IN  (Idle /\ c.h.g # 0 /\ cb = Ret)
                    => /\ state[Child(c.h)] = FULFILLED
                       /\ value[Child(c.h)] = Returned(c.h.id, c.side)

\* the constructor call that made guard g is still running
Constructing(g) ==
    \E i \in DOMAIN stack : stack[i].op = "doResolve" /\ stack[i].self = g

\* C11: when the producer passed to the constructor throws X, then, once the
\* constructor has returned, the future is REJECTED with X if X was the first
\* thing doResolve saw, and otherwise has the state and value the earlier
\* entry-point call gave it; X is the future's value in no other case; the
\* step that ignores X changes no future; and the constructor's task never
\* ends with an exception in flight.
ProducerThrowSettles(g) ==
    LET f == guards[g].self
        c == guards[g].first[1]
    IN  /\ (guards[g].threw /\ ~Constructing(g) /\ ~exc.thrown)
               => IF c.arg = ProducerError
                  THEN state[f] = REJECTED /\ value[f] = ProducerError
                  ELSE /\ c.which = "R" => state[f] = REJECTED /\ value[f] = c.arg
                       /\ (c.which = "F" /\ c.arg.k = "plain")
                              => state[f] = FULFILLED /\ value[f] = c.arg
        /\ value[f] = ProducerError
               => guards[g].first = <<[which |-> "R", arg |-> ProducerError]>>
ThrowAfterCallIgnored ==
    (stack # <<>> /\ exc.thrown /\ Top.op = "doResolve" /\ guards[Top.self].done)
        => /\ UNCHANGED <<state, value, handlers, timers>>
           /\ ~exc'.thrown
           /\ Len(stack') <= Len(stack)
ConstructorReturns ==
    (stack # <<>> /\ stack[1].op = "doResolve" /\ stack' = <<>>) => ~exc'.thrown
C11_ProducerException ==
    /\ [](\A g \in Guards : guards[g].by = "user" => ProducerThrowSettles(g))
    /\ [][ThrowAfterCallIgnored /\ ConstructorReturns]_vars
\* a producer that threw first, and a producer that threw after fulfilling
C11_Witness ==
    /\ Idle
    /\ \E g \in Guards :
           guards[g].threw /\ guards[g].first[1].arg = ProducerError
    /\ \E g \in Guards :
           /\ guards[g].threw /\ guards[g].first[1].which = "F"
           /\ state[guards[g].self] = FULFILLED

\* C12: no exception thrown by a callback passed to done or then leaves a
\* task uncaught: neither the timer turn that ran handle nor the code that
\* called an entry point ever sees it.
C12_NoEscape ==
    ~(stack = <<>> /\ exc.thrown /\ exc.v.k \in {"exF", "exR"})

\* C13: a handle call on a future that is FULFILLED or REJECTED stores
\* nothing, and starts the handler's callback for that state (when it has
\* one) with the future's value, and no second callback after the first has
\* returned; a callback that is started runs; and a reaction handled late is
\* invoked once only, on the side of the future's state, with its value.
LateHandleStep ==
    (stack # <<>> /\ ~exc.thrown /\ Top.op = "handle" /\ state[Top.self] # PENDING)
        => LET f == Top.self
               s == Matching(state[f])
               cb == IF s = "F" THEN Top.h.onFulfilled ELSE Top.h.onRejected
           IN  /\ UNCHANGED <<handlers, stored, state, value>>
               /\ IF Top.pc = "start" /\ (Top.h.g # 0 \/ cb.k # "none")
                  THEN /\ stack' # <<>>
                       /\ stack'[Len(stack')] =
                              [op |-> IF s = "F" THEN "onFulfilled" ELSE "onRejected",
                               self |-> f, h |-> Top.h, arg |-> value[f],
                               pc |-> "start", i |-> 0]
                  ELSE stack' = Pop(stack)
CallbackRuns ==
    (stack # <<>> /\ ~exc.thrown /\ Top.op \in {"onFulfilled", "onRejected"}
        /\ Top.pc = "start")
        => calls'[Top.self] = Append(calls[Top.self],
                                     [h |-> Top.h, side |-> Side(Top), arg |-> Top.arg])
LateOnce(f) ==
    \A i \in DOMAIN calls[f] :
        calls[f][i].h.id \notin stored
            => /\ Count(f, calls[f][i].h.id) = 1
               /\ calls[f][i].side = Matching(state[f])
               /\ calls[f][i].arg = value[f]
C13_LateRegistration ==
    /\ [][LateHandleStep /\ CallbackRuns]_vars
    /\ [](\A f \in Futures : LateOnce(f))
\* a reaction registered on a settled future has been invoked by its own
\* timer turn, and the task is over
C13_Witness ==
    \E f \in Futures :
        \E i \in DOMAIN calls[f] :
            /\ Idle /\ calls[f][i].h.id \notin stored
            /\ handlers[f].null

\* the callback of a closure of then() is about to run or is running
CallbackUnfinished(fr) ==
    fr.op \in {"onFulfilled", "onRejected"} /\ fr.pc \in {"start", "running"}

\* C14: a future then() returned is PENDING until a callback of its reaction
\* on the parent has been invoked and the first one invoked has returned or
\* thrown: it is never settled with no invocation, or while the frame of that
\* first invocation has not got past the callback.
C14_ChildWaitsForCallback ==
    \A g \in Guards :
        (guards[g].by = "then" /\ state[guards[g].self] # PENDING)
            => \E p \in Futures :
                   \E i \in DOMAIN calls[p] :
                       /\ calls[p][i].h.g = g
                       /\ \A j \in 1..(i - 1) : calls[p][j].h.g # g
                       /\ \A k \in DOMAIN stack :
                              ~(/\ CallbackUnfinished(stack[k])
                                /\ stack[k].h.g = g
                                /\ Side(stack[k]) = calls[p][i].side)
\* the callback passed to then is running and the future then() returned is
\* PENDING; and elsewhere such a future is settled
C14_Witness ==
    \E k \in DOMAIN stack :
        /\ stack[k].op \in {"onFulfilled", "onRejected"} /\ stack[k].pc = "running"
        /\ state[guards[stack[k].h.g].self] = PENDING

\* C15: once the task that settled a future is over, however fulfill or
\* reject ended, the future's handlers have been discarded: no settled future
\* keeps a stored reaction.
C15_ClearedAtSettlement ==
    \A f \in Futures :
        (Idle /\ state[f] # PENDING) => handlers[f].null /\ handlers[f].list = <<>>

\* fulfill or reject has been called on f and has not yet assigned the state
Settling(f) ==
    \E k \in DOMAIN stack :
        /\ stack[k].op \in {"fulfill", "reject"}
        /\ stack[k].self = f /\ stack[k].pc = "start"

\* C16: when fulfill has been called with an object whose `then` throws X when
\* read, the future is REJECTED with X from the moment the call has dealt with
\* it, and stays so; and X is in flight nowhere but in that fulfill call: it
\* reaches no caller and leaves no task.
C16_BadThenRejects ==
    /\ \A g \in Guards :
           LET inv == guards[g].invoked
               f == guards[g].self
           IN  (inv # <<>> /\ inv[1].which = "F" /\ inv[1].arg = BadThen /\ ~Settling(f))
                   => state[f] = REJECTED /\ value[f] = GetterError
    /\ (exc.thrown /\ exc.v = GetterError)
           => stack # <<>> /\ Top.op = "fulfill" /\ Top.pc = "start"
\* such a future with a stored reaction, after the task
C16_Witness ==
    \E f \in Futures :
        /\ Idle /\ state[f] = REJECTED /\ value[f] = GetterError
        /\ calls[f] # <<>> /\ calls[f][1].h.id \in stored

\* C17: when a stored reaction's onFulfilled, dispatched by fulfill with the
\* value V, has thrown, the future is FULFILLED with V, then and ever after:
\* the throw of a reaction callback does not make fulfill reject the future.
C17_CallbackThrowKeepsFulfilled ==
    \A f \in Futures :
        \A i \in DOMAIN calls[f] :
            LET c == calls[f][i]
            IN  (c.side = "F" /\ c.h.id \in stored /\ c.h.g = 0 /\ c.h.onFulfilled = Throw)
                    => state[f] = FULFILLED /\ value[f] = c.arg

\* the doResolve call that guards future p's own entry points
OwnGuard(p) == CHOOSE g \in Guards : guards[g].self = p /\ guards[g].by # "adopt"
\* the settlement the first fulfill / reject call gives p
Settlement(p) ==
    LET c == guards[OwnGuard(p)].invoked[1]
    IN  IF c.which = "R" THEN [which |-> "R", arg |-> c.arg]
        ELSE IF c.arg = BadThen THEN [which |-> "R", arg |-> GetterError]
        ELSE [which |-> "F", arg |-> c.arg]
\* what the closures of p.then(onF, onR), registration h, hand to the derived
\* future for that settlement
Outcome(p, h) ==
    LET st == Settlement(p)
        cb == IF st.which = "F" THEN h.onFulfilled ELSE h.onRejected
    IN  CASE cb = Ret -> [which |-> "F", arg |-> Returned(h.id, st.which)]
          [] cb = Throw -> [which |-> "R", arg |-> Thrown(h.id, st.which)]
          [] OTHER -> st

\* C18: the future C returned by F.then(f, g) is settled with what f and g
\* make of F's settlement, whatever other reactions are registered on F, a
\* done callback that throws included.
C18_SiblingIsolation ==
    \A p \in Futures :
        \A i \in DOMAIN calls[p] :
            LET h == calls[p][i].h
            IN  (h.g # 0 /\ guards[h.g].invoked # <<>>)
                    => guards[h.g].invoked[1] = Outcome(p, h)

\* C19: once a future is settled and nothing is running or waiting in the
\* timer queue any more, every future a then() on it returned has left
\* PENDING, whether its reaction was stored or handled late.
C19_ChainLiveness ==
    (Idle /\ timers = <<>>)
        => \A p \in Futures :
               state[p] # PENDING
                   => /\ \A k \in DOMAIN handlers[p].list :
                             handlers[p].list[k].g # 0
                                 => state[Child(handlers[p].list[k])] # PENDING
                      /\ \A i \in DOMAIN calls[p] :
                             calls[p][i].h.g # 0
                                 => state[Child(calls[p][i].h)] # PENDING

\* C20: a PENDING future has a handlers list; while a fulfill or reject call
\* is at or before its forEach the future's handlers are not null; and no
\* TypeError (a push or forEach on null) is ever thrown.
C20_HandlersAvailable ==
    /\ \A f \in Futures : state[f] = PENDING => ~handlers[f].null
    /\ \A k \in DOMAIN stack :
           (stack[k].op \in {"fulfill", "reject"} /\ stack[k].pc \in {"start", "forEach"})
               => ~handlers[stack[k].self].null
    /\ ~(exc.thrown /\ exc.v = TypeError)
\* reject runs from fulfill's catch on a future that fulfill has already
\* marked FULFILLED, and the handlers are still there
C20_Witness ==
    /\ stack # <<>> /\ Top.op = "reject" /\ Top.pc = "start"
    /\ state[Top.self] = FULFILLED
    /\ handlers[Top.self].list # <<>>

====
